---- MODULE Spec2Model ----
(***************************************************************************)
(* A model of src/proxy_interceptor.py: a Flask proxy that forwards POST   *)
(* requests to the Gemini API, relays the response (buffered or streamed)  *)
(* and writes a request snapshot and a response snapshot per request.      *)
(*                                                                         *)
(* Text is a sequence of one-character strings.  "SP" is a space, "NL" a   *)
(* line feed, and "H" stands for a run of decimal digits longer than the   *)
(* interpreter's integer-conversion limit (requires-python >= 3.11, line   *)
(* 3): json.loads raises ValueError on it, which is not a JSONDecodeError. *)
(***************************************************************************)
EXTENDS Integers, Sequences, FiniteSets, TLC

VARIABLES
    \* one handling flow per inbound request
    pc,                   \* where each flow stands in its handler
    request,              \* the inbound request of each flow and the handler it was routed to
    epoch_time,           \* int(time.time()) as read at the start of the handler
    response,             \* what requests.post gave: status, header lines, content
    received,             \* streaming: the chunks iter_content has produced so far
    full_response_text,   \* streaming: generate()'s accumulated text
    caller,               \* the response head the caller was sent
    delivered,            \* the body chunks the caller was sent
    connected,            \* whether the caller's connection is still open
    failure,              \* the capture step that failed in this flow, if any
    writes,               \* the keys of the snapshot writes each flow has made
    sink,                 \* the log directory: per key, the two snapshot files
    now,                  \* the clock, in whole seconds
    \* the pure parts, each driven on its own inputs
    recon_text,           \* reconstruction: the accumulated text
    recon_body,           \* reconstruction: body_to_log
    rphase,               \* "input" while the text is being accumulated, then "done"
    rcount,               \* the number of pieces accumulated so far
    inbound,              \* get_forwarding_headers: the header lines of the inbound request
    forward_headers,      \* get_forwarding_headers: the mapping it returns
    upstream_headers,     \* the header lines of the upstream response
    filtered_headers,     \* the mapping handed to Response(headers=...)
    args,                 \* the query string of the inbound request, as received
    gemini_url            \* the URL handed to requests.post

flowVars == <<pc, request, epoch_time, response, received, full_response_text, caller,
              delivered, connected, failure, writes, sink, now>>

reconVars == <<recon_text, recon_body, rphase, rcount>>

selVars == <<inbound, forward_headers>>

filVars == <<upstream_headers, filtered_headers>>

urlVars == <<args, gemini_url>>

vars == <<pc, request, epoch_time, response, received, full_response_text, caller,
          delivered, connected, failure, writes, sink, now, recon_text, recon_body,
          rphase, rcount, inbound, forward_headers, upstream_headers, filtered_headers,
          args, gemini_url>>

\* ------------------------------------------------------------------ bounds

MaxPieces == 5

MaxHeaders == 3

MaxChunks == 2

MaxTime == 1

MaxParams == 3

\* ------------------------------------------------------------ text helpers

IsSpace(c) == c \in {"SP", "NL"}

IsDigit(c) == c \in {"1", "2", "H"}

RECURSIVE LStrip(_)
LStrip(s) == IF s # <<>> /\ IsSpace(Head(s)) THEN LStrip(Tail(s)) ELSE s

RECURSIVE RStrip(_)
RStrip(s) ==
    IF s # <<>> /\ IsSpace(s[Len(s)]) THEN RStrip(SubSeq(s, 1, Len(s) - 1)) ELSE s

\* str.strip()
Strip(s) == RStrip(LStrip(s))

\* str.split('\n')
RECURSIVE SplitLines(_)
SplitLines(s) ==
    IF \E i \in 1..Len(s) : s[i] = "NL"
    THEN LET i == CHOOSE k \in 1..Len(s) :
                      s[k] = "NL" /\ \A j \in 1..(k - 1) : s[j] # "NL"
         IN  <<SubSeq(s, 1, i - 1)>> \o SplitLines(SubSeq(s, i + 1, Len(s)))
    ELSE <<s>>

\* str.startswith
StartsWith(s, p) == Len(s) >= Len(p) /\ SubSeq(s, 1, Len(p)) = p

\* the literal 'data: '
DataPrefix == <<"d", "a", "t", "a", ":", "SP">>

\* a line 'data: <payload>'
Line(payload) == DataPrefix \o payload

\* line[6:]
DropPrefix(line) == SubSeq(line, Len(DataPrefix) + 1, Len(line))

RECURSIVE DigitRun(_)
DigitRun(s) ==
    IF s # <<>> /\ IsDigit(Head(s)) THEN <<Head(s)>> \o DigitRun(Tail(s)) ELSE <<>>

\* json.loads on a text: leading whitespace, one number, trailing whitespace.
\* The decoded number is kept as its canonical digits.
JsonLoads(s) ==
    LET t    == LStrip(s)
        run  == DigitRun(t)
        rest == SubSeq(t, Len(run) + 1, Len(t))
    IN  IF run = <<>> THEN [tag |-> "JSONDecodeError", val |-> <<>>]
        ELSE IF \E i \in 1..Len(run) : run[i] = "H"
             THEN [tag |-> "ValueError", val |-> <<>>]
        ELSE IF LStrip(rest) # <<>> THEN [tag |-> "JSONDecodeError", val |-> <<>>]
        ELSE [tag |-> "ok", val |-> run]

\* ------------------------------------------- streaming capture reconstruction

\* lines = [line.strip() for line in text.strip().split('\n') if line.strip()]
TrimmedLines(text) ==
    LET raw == SplitLines(Strip(text))
        trimmed == [i \in 1..Len(raw) |-> Strip(raw[i])]
    IN  SelectSeq(trimmed, LAMBDA l : l # <<>>)

\* The loop over the lines of an SSE stream: the decoded payloads of the
\* 'data: ' lines so far, or "raised" once a payload raises an error that is
\* not a JSONDecodeError (it leaves the loop and reaches the outer handler).
RECURSIVE ParseSSEMutAbortOnBadLine(_, _)
ParseSSEMutAbortOnBadLine(lines, acc) ==
    IF lines = <<>> THEN [raised |-> FALSE, objs |-> acc]
    ELSE IF ~StartsWith(Head(lines), DataPrefix)
         THEN ParseSSEMutAbortOnBadLine(Tail(lines), acc)
    ELSE LET r == JsonLoads(DropPrefix(Head(lines)))
         IN  IF r.tag = "ok"
             THEN ParseSSEMutAbortOnBadLine(Tail(lines), Append(acc, r.val))
             ELSE [raised |-> TRUE, objs |-> acc]

RECURSIVE ParseSSE(_, _)
ParseSSE(lines, acc) ==
    IF lines = <<>> THEN [raised |-> FALSE, objs |-> acc]
    ELSE IF ~StartsWith(Head(lines), DataPrefix) THEN ParseSSE(Tail(lines), acc)
    ELSE LET r == JsonLoads(DropPrefix(Head(lines)))
         IN  IF r.tag = "ok" THEN ParseSSE(Tail(lines), Append(acc, r.val))
             ELSE IF r.tag = "JSONDecodeError" THEN ParseSSE(Tail(lines), acc)
             ELSE [raised |-> TRUE, objs |-> acc]

RawBody(text) == [kind |-> "text", val |-> text]

\* The body of the outer try block; kind "raised" is an exception leaving it.
ReconstructTry(text) ==
    LET lines == TrimmedLines(text)
    IN  IF lines # <<>> /\ StartsWith(lines[1], DataPrefix)
        THEN LET r == ParseSSE(lines, <<>>)
             IN  IF r.raised THEN [kind |-> "raised", val |-> <<>>]
                 ELSE IF r.objs # <<>> THEN [kind |-> "list", val |-> r.objs]
                 ELSE RawBody(text)
        ELSE LET r == JsonLoads(text)
             IN  IF r.tag = "ok" THEN [kind |-> "json", val |-> r.val]
                 ELSE IF r.tag = "JSONDecodeError" THEN RawBody(text)
                 ELSE [kind |-> "raised", val |-> <<>>]

ReconstructMutSSEOnly(text) ==
    LET lines == TrimmedLines(text)
        r == ParseSSE(lines, <<>>)
    IN  IF lines # <<>> /\ StartsWith(lines[1], DataPrefix) /\ ~r.raised /\ r.objs # <<>>
        THEN [kind |-> "list", val |-> r.objs]
        ELSE RawBody(text)

\* recon_body as computed before the response snapshot is written
Reconstruct(text) ==
    IF Strip(text) # <<>>
    THEN LET r == ReconstructTry(text)
         IN  IF r.kind = "raised" THEN RawBody(text) ELSE r
    ELSE RawBody(text)

\* ------------------------------------------------------------ header names

\* str.lower() on the header names of the model
Lower(n) ==
    CASE n \in {"authorization", "Authorization", "AUTHORIZATION"} -> "authorization"
      [] n \in {"accept", "Accept"} -> "accept"
      [] n \in {"content-type", "Content-Type"} -> "content-type"
      [] n \in {"x-custom", "X-Custom"} -> "x-custom"
      [] n \in {"content-length", "Content-Length"} -> "content-length"
      [] n \in {"date", "Date"} -> "date"
      [] OTHER -> n

\* The name under which the serving layer presents a header of the WSGI
\* environment: HTTP_X_CUSTOM is listed as X-Custom, whatever was sent.
TitleCase(n) ==
    CASE Lower(n) = "authorization" -> "Authorization"
      [] Lower(n) = "accept" -> "Accept"
      [] Lower(n) = "content-type" -> "Content-Type"
      [] Lower(n) = "x-custom" -> "X-Custom"
      [] OTHER -> n

\* dict[key] = value
Put(d, k, v) == [x \in (DOMAIN d) \cup {k} |-> IF x = k THEN v ELSE d[x]]

EmptyDict == [x \in {} |-> <<>>]

\* The indices of the lines of hs whose name equals n ignoring case.
SameName(hs, n) == {i \in 1..Len(hs) : Lower(hs[i].name) = Lower(n)}

Min(S) == CHOOSE x \in S : \A y \in S : x <= y

Max(S) == CHOOSE x \in S : \A y \in S : x >= y

\* The values of the lines at the indices S, in line order (a joined value).
RECURSIVE Joined(_, _)
Joined(hs, S) ==
    IF S = {} THEN <<>> ELSE <<hs[Min(S)].value>> \o Joined(hs, S \ {Min(S)})

\* The names of the lines of hs, first occurrence of each name (ignoring case).
FirstOccurrences(hs) ==
    SelectSeq([i \in 1..Len(hs) |-> [idx |-> i, name |-> hs[i].name]],
              LAMBDA e : e.idx = Min(SameName(hs, e.name)))

\* ------------------------------------------------------- Header Selector

headers_to_forward ==
    << "x-goog-api-key", "authorization", "content-type", "x-goog-api-client",
       "x-gemini-api-privileged-user-id", "user-agent", "accept", "accept-language",
       "accept-encoding" >>

\* header_name in request.headers: request.headers is the serving layer's view of
\* the WSGI environment, whose lookups ignore the case of the name.
HeadersContains(req, name) == SameName(req, name) # {}

\* request.headers[name]: repeated lines of one name are joined into one value by
\* the serving layer; of repeated Content-Type lines the last one stands.
HeadersGet(req, name) ==
    IF Lower(name) = "content-type"
    THEN <<req[Max(SameName(req, name))].value>>
    ELSE Joined(req, SameName(req, name))

\* request.headers.keys()
HeadersKeys(req) ==
    LET f == FirstOccurrences(req) IN [i \in 1..Len(f) |-> TitleCase(f[i].name)]

\* the loop of lines 69-78, over the allow-list names still to visit
RECURSIVE ForwardLoop(_, _, _)
ForwardLoop(names, req, headers) ==
    IF names = <<>> THEN headers
    ELSE LET header_name == Head(names)
             keys == HeadersKeys(req)
         IN  IF HeadersContains(req, header_name)
             THEN ForwardLoop(Tail(names), req,
                              Put(headers, header_name, HeadersGet(req, header_name)))
             ELSE IF \E i \in 1..Len(keys) : Lower(keys[i]) = Lower(header_name)
             THEN LET i == Min({k \in 1..Len(keys) : Lower(keys[k]) = Lower(header_name)})
                      actual_header == keys[i]
                  IN  ForwardLoop(Tail(names), req,
                                  Put(headers, actual_header, HeadersGet(req, actual_header)))
             ELSE ForwardLoop(Tail(names), req, headers)

get_forwarding_headers(req) == ForwardLoop(headers_to_forward, req, EmptyDict)

\* ------------------------------------------------- response header filter

FramingHeaders ==
    {"content-length", "transfer-encoding", "connection", "server", "date",
     "content-encoding"}

\* response.headers.items(): the HTTP client keeps one entry per name ignoring
\* case, under the first casing received, its value the received values joined.
ResponseHeaderItems(up) ==
    LET f == FirstOccurrences(up)
    IN  [i \in 1..Len(f) |->
            [name |-> f[i].name, value |-> Joined(up, SameName(up, f[i].name))]]

\* the loop of lines 157-164 (and 264-271), over the items still to visit
RECURSIVE FilterLoop(_, _, _)
FilterLoop(items, filtered, seen_headers) ==
    IF items = <<>> THEN filtered
    ELSE LET key == Head(items).name
             value == Head(items).value
             key_lower == Lower(key)
         IN  IF key_lower \notin FramingHeaders /\ key_lower \notin seen_headers
             THEN FilterLoop(Tail(items), Put(filtered, key, value),
                             seen_headers \cup {key_lower})
             ELSE FilterLoop(Tail(items), filtered, seen_headers)

FilterHeaders(up) == FilterLoop(ResponseHeaderItems(up), EmptyDict, {})

\* ------------------------------------------------------------- the flows

Flows == {"f1", "f2"}

Methods == {"POST", "GET"}

ActionLiterals == {"generateContent", "streamGenerateContent", "countTokens"}

\* The body of the inbound request: a JSON document, no body, or not JSON.
RequestBodies == {"json", "absent", "invalid"}

UpstreamStatuses == {200, 503}

\* The header lines of the upstream responses of the flows.
UpstreamHeaderLines ==
    << [name |-> "Content-Type", value |-> "v1"],
       [name |-> "Content-Length", value |-> "v2"] >>

\* The contents of unary upstream responses: JSON, not JSON, and a document
\* whose decoding raises an error that is not a JSON decode error.
UnaryContents == {<<"1">>, <<"x">>, <<"H">>}

\* The chunks of streamed upstream responses; "C3" "A9" are the two bytes of
\* one character ("e9" below), and the empty chunk is a keep-alive.
StreamChunks == {<<>>, Line(<<"1">>) \o <<"NL">>, <<"C3">>, <<"A9">>}

Keys == 0..MaxTime

\* bytes.decode('utf-8', errors=...): an invalid byte is skipped ("ignore") or
\* becomes the replacement character ("replace").
RECURSIVE DecodeUtf8(_, _)
DecodeUtf8(bytes, errors) ==
    LET bad == IF errors = "ignore" THEN <<>> ELSE <<"fffd">>
    IN  IF bytes = <<>> THEN <<>>
        ELSE IF Head(bytes) = "C3"
             THEN IF Len(bytes) >= 2 /\ bytes[2] = "A9"
                  THEN <<"e9">> \o DecodeUtf8(SubSeq(bytes, 3, Len(bytes)), errors)
                  ELSE bad \o DecodeUtf8(Tail(bytes), errors)
        ELSE IF Head(bytes) = "A9" THEN bad \o DecodeUtf8(Tail(bytes), errors)
        ELSE <<Head(bytes)>> \o DecodeUtf8(Tail(bytes), errors)

RECURSIVE Concat(_)
Concat(chunks) == IF chunks = <<>> THEN <<>> ELSE Head(chunks) \o Concat(Tail(chunks))

\* The routing of the two @app.route rules: both accept POST only, and the rule
\* with the literal suffix is matched before the generic one.
RouteMutGenericFirst(method, action) ==
    IF method # "POST" THEN "none" ELSE "proxy_request"

Route(method, action) ==
    IF method # "POST" THEN "none"
    ELSE IF action = "streamGenerateContent" THEN "proxy_streaming_request"
    ELSE "proxy_request"

\* request.get_json(): the parsed body, or the HTTP error it raises.
GetJson(body) ==
    CASE body = "json" -> [ok |-> TRUE, status |-> 0]
      [] body = "absent" -> [ok |-> FALSE, status |-> 415]
      [] body = "invalid" -> [ok |-> FALSE, status |-> 400]

\* response.text
ResponseText(content) == DecodeUtf8(content, "replace")

\* response.json()
ResponseJson(content) == JsonLoads(ResponseText(content))

\* lines 147-150: the body for the capture, "raised" when the decoding raises
\* an error that the except clause does not name
UnaryCaptureBody(content) ==
    LET r == ResponseJson(content)
    IN  IF r.tag = "ok" THEN [kind |-> "json", val |-> r.val]
        ELSE IF r.tag = "JSONDecodeError" THEN RawBody(ResponseText(content))
        ELSE [kind |-> "raised", val |-> <<>>]

NoRequest == [method |-> "none", action |-> "none", body |-> "none", handler |-> "none"]

NoUpstream == [state |-> "none", status |-> 0, headers |-> <<>>, content |-> <<>>]

\* No response yet; the response of the serving layer to a request it does not
\* route or whose handler raised; the upstream response as relayed.
NoResponse == [origin |-> "none", status |-> 0, headers |-> EmptyDict, aborted |-> FALSE]

ErrorResponse(status) ==
    [origin |-> "serving_layer", status |-> status, headers |-> EmptyDict, aborted |-> FALSE]

\* Response(..., status=response.status_code, headers=filtered_headers)
Relayed(r) ==
    [origin |-> "upstream", status |-> r.status, headers |-> FilterHeaders(r.headers),
     aborted |-> FALSE]

NoSnapshot == [of |-> "none"]

\* request_log
RequestSnapshot(f) ==
    [of |-> f, method |-> request[f].method, action |-> request[f].action,
     body |-> request[f].body]

\* response_log
ResponseSnapshot(f, body) ==
    [of |-> f, statusCode |-> response[f].status, body |-> body]

NoWrites == [request |-> <<>>, response |-> <<>>]

\* with open(req_log_filepath, 'w') as f: json.dump(request_log, f)
WriteRequestSnapshot(f) ==
    /\ sink' = [sink EXCEPT ![epoch_time[f]].request = RequestSnapshot(f)]
    /\ writes' = [writes EXCEPT ![f].request = Append(@, epoch_time[f])]

\* with open(res_log_filepath, 'w') as f: json.dump(response_log, f)
WriteResponseSnapshot(f, body) ==
    /\ sink' = [sink EXCEPT ![epoch_time[f]].response = ResponseSnapshot(f, body)]
    /\ writes' = [writes EXCEPT ![f].response = Append(@, epoch_time[f])]

\* An exception leaves the handler: the serving layer answers 500.
Raise(f) ==
    /\ caller' = [caller EXCEPT ![f] = ErrorResponse(500)]
    /\ pc' = [pc EXCEPT ![f] = "done"]

\* An exception leaves generate() after the response head was sent: the
\* serving layer drops the connection.
RaiseInStream(f) ==
    /\ caller' = [caller EXCEPT ![f].aborted = TRUE]
    /\ pc' = [pc EXCEPT ![f] = "done"]

CaptureOutcomes == {"ok", "mkdir_failed", "write_failed"}

\* ------------------------------------------ specification: header selector

NotComputed == [x \in {"pending"} |-> <<>>]

HeaderValues == {"v1", "v2"}

InboundNames ==
    {"authorization", "Authorization", "AUTHORIZATION", "Accept", "content-type",
     "Content-Type", "X-Custom"}

SelInit ==
    /\ inbound = <<>>
    /\ forward_headers = NotComputed

\* one more header line arrives with the request
ReceiveHeader ==
    /\ forward_headers = NotComputed
    /\ Len(inbound) < MaxHeaders
    /\ \E n \in InboundNames, v \in HeaderValues :
         inbound' = Append(inbound, [name |-> n, value |-> v])
    /\ UNCHANGED <<forward_headers, reconVars, filVars, urlVars, flowVars>>

\* forward_headers = get_forwarding_headers()
SelectHeaders ==
    /\ forward_headers = NotComputed
    /\ forward_headers' = get_forwarding_headers(inbound)
    /\ UNCHANGED <<inbound, reconVars, filVars, urlVars, flowVars>>

SelNext == ReceiveHeader \/ SelectHeaders

\* ------------------------------------- specification: response header filter

UpstreamNames ==
    {"X-Custom", "x-custom", "Content-Type", "content-type", "Content-Length",
     "content-length", "Date"}

FilInit ==
    /\ upstream_headers = <<>>
    /\ filtered_headers = NotComputed

\* one more header line arrives from upstream
ReceiveUpstreamHeader ==
    /\ filtered_headers = NotComputed
    /\ Len(upstream_headers) < MaxHeaders
    /\ \E n \in UpstreamNames, v \in HeaderValues :
         upstream_headers' = Append(upstream_headers, [name |-> n, value |-> v])
    /\ UNCHANGED <<filtered_headers, reconVars, selVars, urlVars, flowVars>>

\* the filter loop before Response(...)
FilterResponseHeaders ==
    /\ filtered_headers = NotComputed
    /\ filtered_headers' = FilterHeaders(upstream_headers)
    /\ UNCHANGED <<upstream_headers, reconVars, selVars, urlVars, flowVars>>

FilNext == ReceiveUpstreamHeader \/ FilterResponseHeaders

\* --------------------------------------------------- specification: the URL

\* The keys and values of query parameters as they stand in the request line;
\* "%20" and "%26" are the percent-encodings of a space and of "&".
ParamKeys == {"a", "b"}

ParamValues == {"1", "2", "%20", "%26"}

\* percent-decoding, as done when the query string is parsed into request.args
Unquote(t) ==
    CASE t = "%20" -> "SP"
      [] t = "%26" -> "&"
      [] OTHER -> t

\* request.args.items(): the parsed pairs, one per key in the order of the
\* keys' first occurrence, with the first value of the key
RECURSIVE ArgsItems(_, _)
ArgsItems(raw, seen) ==
    IF raw = <<>> THEN <<>>
    ELSE LET k == Unquote(Head(raw).key)
             v == Unquote(Head(raw).value)
         IN  IF k \in seen THEN ArgsItems(Tail(raw), seen)
             ELSE <<[key |-> k, value |-> v]>> \o ArgsItems(Tail(raw), seen \cup {k})

\* "&".join(query_params), each of them f"{key}={value}"
RECURSIVE JoinParams(_)
JoinParams(items) ==
    IF items = <<>> THEN <<>>
    ELSE <<Head(items).key, "=", Head(items).value>>
         \o (IF Len(items) > 1 THEN <<"&">> ELSE <<>>)
         \o JoinParams(Tail(items))

\* f"{GEMINI_API_BASE_URL}/v1beta/models/{model}:{action}"
BaseUrl(action) == <<"BASE", "/v1beta/models/", "m", ":", action>>

\* lines 125-132 and 178-185
BuildUrl(action, raw) ==
    LET items == ArgsItems(raw, {})
    IN  IF items # <<>>
        THEN BaseUrl(action) \o <<"?">> \o JoinParams(items)
        ELSE BaseUrl(action)

\* requests.post(gemini_url, ...): the URL is re-quoted before it is sent, a
\* space becoming "%20"; "&" and "=" are left as they are
PreparedUrl(url) == [i \in 1..Len(url) |-> IF url[i] = "SP" THEN "%20" ELSE url[i]]

NoUrl == <<"pending">>

UrlInit ==
    /\ args = <<>>
    /\ gemini_url = NoUrl

\* one more key=value pair stands in the query string
ReceiveParam ==
    /\ gemini_url = NoUrl
    /\ Len(args) < MaxParams
    /\ \E k \in ParamKeys, v \in ParamValues :
         args' = Append(args, [key |-> k, value |-> v])
    /\ UNCHANGED <<gemini_url, reconVars, selVars, filVars, flowVars>>

\* the handler builds the upstream URL
BuildGeminiUrl ==
    /\ gemini_url = NoUrl
    /\ \E a \in ActionLiterals : gemini_url' = BuildUrl(a, args)
    /\ UNCHANGED <<args, reconVars, selVars, filVars, flowVars>>

UrlNext == ReceiveParam \/ BuildGeminiUrl

\* ------------------------------------------ specification: reconstruction

\* The pieces the accumulated text is made of.
Pieces ==
    { Line(<<"1">>), Line(<<"2">>), Line(<<"x">>), Line(<<"H">>),
      <<"NL">>, <<"SP">>, <<"1">>, <<"x">> }

NoBody == [kind |-> "none", val |-> <<>>]

ReconInit ==
    /\ recon_text = <<>>
    /\ recon_body = NoBody
    /\ rphase = "input"
    /\ rcount = 0

\* recon_text += chunk.decode(...)
Accumulate ==
    /\ rphase = "input"
    /\ rcount < MaxPieces
    /\ \E p \in Pieces : recon_text' = recon_text \o p
    /\ rcount' = rcount + 1
    /\ UNCHANGED <<recon_body, rphase, selVars, filVars, urlVars, flowVars>>

\* the stream is exhausted: the body is reconstructed
ReconstructBody ==
    /\ rphase = "input"
    /\ recon_body' = Reconstruct(recon_text)
    /\ rphase' = "done"
    /\ UNCHANGED <<recon_text, rcount, selVars, filVars, urlVars, flowVars>>

ReconNext == Accumulate \/ ReconstructBody

\* ------------------------------------------------------ the flows: actions

FlowsInit(active) ==
    /\ pc = [f \in Flows |-> IF f \in active THEN "idle" ELSE "off"]
    /\ request = [f \in Flows |-> NoRequest]
    /\ epoch_time = [f \in Flows |-> 0]
    /\ response = [f \in Flows |-> NoUpstream]
    /\ received = [f \in Flows |-> <<>>]
    /\ full_response_text = [f \in Flows |-> <<>>]
    /\ caller = [f \in Flows |-> NoResponse]
    /\ delivered = [f \in Flows |-> <<>>]
    /\ connected = [f \in Flows |-> TRUE]
    /\ failure = [f \in Flows |-> "none"]
    /\ writes = [f \in Flows |-> NoWrites]
    /\ sink = [k \in Keys |-> [request |-> NoSnapshot, response |-> NoSnapshot]]
    /\ now = 0

FlowsOff == FlowsInit({})

PureUnchanged == UNCHANGED <<reconVars, selVars, filVars, urlVars>>

\* A request with a method the routes do not accept: no handler runs.
NotRouted(f) ==
    /\ pc[f] = "idle"
    /\ \E m \in Methods, a \in ActionLiterals, b \in RequestBodies :
         /\ Route(m, a) = "none"
         /\ request' = [request EXCEPT ![f] =
                [method |-> m, action |-> a, body |-> b, handler |-> "none"]]
    /\ caller' = [caller EXCEPT ![f] = ErrorResponse(405)]
    /\ pc' = [pc EXCEPT ![f] = "done"]
    /\ UNCHANGED <<epoch_time, response, received, full_response_text, delivered,
                   connected, failure, writes, sink, now>>
    /\ PureUnchanged

\* proxy_request, lines 125-137: the key is read, the body parsed
UnaryStart(f) ==
    /\ pc[f] = "idle"
    /\ \E m \in Methods, a \in ActionLiterals, b \in RequestBodies :
         /\ Route(m, a) = "proxy_request"
         /\ request' = [request EXCEPT ![f] =
                [method |-> m, action |-> a, body |-> b, handler |-> "proxy_request"]]
         /\ IF GetJson(b).ok
            THEN /\ pc' = [pc EXCEPT ![f] = "u_post"]
                 /\ UNCHANGED caller
            ELSE /\ pc' = [pc EXCEPT ![f] = "done"]
                 /\ caller' = [caller EXCEPT ![f] = ErrorResponse(GetJson(b).status)]
    /\ epoch_time' = [epoch_time EXCEPT ![f] = now]
    /\ UNCHANGED <<response, received, full_response_text, delivered, connected,
                   failure, writes, sink, now>>
    /\ PureUnchanged

\* proxy_request, lines 140-150: requests.post raises
UnaryTransportFailure(f) ==
    /\ pc[f] = "u_post"
    /\ response' = [response EXCEPT ![f].state = "failed"]
    /\ Raise(f)
    /\ UNCHANGED <<request, epoch_time, received, full_response_text, delivered,
                   connected, failure, writes, sink, now>>
    /\ PureUnchanged

\* proxy_request, lines 140-150: requests.post returns, the body is decoded
UnaryUpstream(f) ==
    /\ pc[f] = "u_post"
    /\ \E st \in UpstreamStatuses, c \in UnaryContents :
         /\ response' = [response EXCEPT ![f] =
                [state |-> "responded", status |-> st,
                 headers |-> UpstreamHeaderLines, content |-> c]]
         /\ IF UnaryCaptureBody(c).kind = "raised"
            THEN Raise(f)
            ELSE /\ pc' = [pc EXCEPT ![f] = "u_log_request"]
                 /\ UNCHANGED caller
    /\ UNCHANGED <<request, epoch_time, received, full_response_text, delivered,
                   connected, failure, writes, sink, now>>
    /\ PureUnchanged

\* log_request_response, lines 92-105
UnaryLogRequest(f) ==
    /\ pc[f] = "u_log_request"
    /\ \E outcome \in CaptureOutcomes :
         IF outcome = "ok"
         THEN /\ WriteRequestSnapshot(f)
              /\ pc' = [pc EXCEPT ![f] = "u_log_response"]
              /\ UNCHANGED <<caller, failure>>
         ELSE /\ failure' = [failure EXCEPT ![f] = outcome]
              /\ Raise(f)
              /\ UNCHANGED <<sink, writes>>
    /\ UNCHANGED <<request, epoch_time, response, received, full_response_text,
                   delivered, connected, now>>
    /\ PureUnchanged

\* log_request_response, lines 108-116, and the return of lines 155-170
UnaryLogResponse(f) ==
    /\ pc[f] = "u_log_response"
    /\ \E outcome \in CaptureOutcomes \ {"mkdir_failed"} :
         IF outcome = "ok"
         THEN /\ WriteResponseSnapshot(f, UnaryCaptureBody(response[f].content))
              /\ caller' = [caller EXCEPT ![f] = Relayed(response[f])]
              /\ delivered' = [delivered EXCEPT ![f] = <<response[f].content>>]
              /\ pc' = [pc EXCEPT ![f] = "done"]
              /\ UNCHANGED failure
         ELSE /\ failure' = [failure EXCEPT ![f] = outcome]
              /\ Raise(f)
              /\ UNCHANGED <<sink, writes, delivered>>
    /\ UNCHANGED <<request, epoch_time, response, received, full_response_text,
                   connected, now>>
    /\ PureUnchanged

\* proxy_streaming_request, lines 178-188
StreamStart(f) ==
    /\ pc[f] = "idle"
    /\ \E m \in Methods, a \in ActionLiterals, b \in RequestBodies :
         /\ Route(m, a) = "proxy_streaming_request"
         /\ request' = [request EXCEPT ![f] =
                [method |-> m, action |-> a, body |-> b,
                 handler |-> "proxy_streaming_request"]]
    /\ epoch_time' = [epoch_time EXCEPT ![f] = now]
    /\ pc' = [pc EXCEPT ![f] = "s_log_request"]
    /\ UNCHANGED <<response, received, full_response_text, caller, delivered,
                   connected, failure, writes, sink, now>>
    /\ PureUnchanged

\* proxy_streaming_request, lines 191-203
StreamLogRequest(f) ==
    /\ pc[f] = "s_log_request"
    /\ \E outcome \in CaptureOutcomes :
         IF outcome = "mkdir_failed"
         THEN /\ failure' = [failure EXCEPT ![f] = outcome]
              /\ Raise(f)
              /\ UNCHANGED <<sink, writes>>
         ELSE IF ~GetJson(request[f].body).ok
         THEN /\ caller' = [caller EXCEPT ![f] =
                     ErrorResponse(GetJson(request[f].body).status)]
              /\ pc' = [pc EXCEPT ![f] = "done"]
              /\ UNCHANGED <<sink, writes, failure>>
         ELSE IF outcome = "write_failed"
         THEN /\ failure' = [failure EXCEPT ![f] = outcome]
              /\ Raise(f)
              /\ UNCHANGED <<sink, writes>>
         ELSE /\ WriteRequestSnapshot(f)
              /\ pc' = [pc EXCEPT ![f] = "s_post"]
              /\ UNCHANGED <<caller, failure>>
    /\ UNCHANGED <<request, epoch_time, response, received, full_response_text,
                   delivered, connected, now>>
    /\ PureUnchanged

\* proxy_streaming_request, lines 206-211: requests.post raises
StreamTransportFailure(f) ==
    /\ pc[f] = "s_post"
    /\ response' = [response EXCEPT ![f].state = "failed"]
    /\ Raise(f)
    /\ UNCHANGED <<request, epoch_time, received, full_response_text, delivered,
                   connected, failure, writes, sink, now>>
    /\ PureUnchanged

\* proxy_streaming_request, lines 206-211 and 262-278: the response head
\* arrives and is relayed, the body still to come
StreamUpstream(f) ==
    /\ pc[f] = "s_post"
    /\ \E st \in UpstreamStatuses :
         /\ response' = [response EXCEPT ![f] =
                [state |-> "streaming", status |-> st,
                 headers |-> UpstreamHeaderLines, content |-> <<>>]]
         /\ caller' = [caller EXCEPT ![f] = Relayed(response'[f])]
    /\ pc' = [pc EXCEPT ![f] = "s_read"]
    /\ UNCHANGED <<request, epoch_time, received, full_response_text, delivered,
                   connected, failure, writes, sink, now>>
    /\ PureUnchanged

\* generate(), lines 216-218, reading on without yielding the chunk
StreamReadMutNoYield(f) ==
    /\ pc[f] = "s_read"
    /\ Len(received[f]) < MaxChunks
    /\ \E chunk \in StreamChunks :
         /\ received' = [received EXCEPT ![f] = Append(@, chunk)]
         /\ IF chunk # <<>>
            THEN full_response_text' = [full_response_text EXCEPT ![f] =
                        @ \o DecodeUtf8(chunk, "ignore")]
            ELSE UNCHANGED full_response_text
    /\ UNCHANGED <<pc, request, epoch_time, response, caller, delivered, connected,
                   failure, writes, sink, now>>
    /\ PureUnchanged

\* generate(), lines 216-218, adding the chunk's text to the buffer twice
StreamReadMutAccumulateTwice(f) ==
    /\ pc[f] = "s_read"
    /\ Len(received[f]) < MaxChunks
    /\ \E chunk \in StreamChunks :
         /\ received' = [received EXCEPT ![f] = Append(@, chunk)]
         /\ IF chunk # <<>>
            THEN /\ full_response_text' = [full_response_text EXCEPT ![f] =
                        @ \o DecodeUtf8(chunk, "ignore") \o DecodeUtf8(chunk, "ignore")]
                 /\ pc' = [pc EXCEPT ![f] = "s_yield"]
            ELSE UNCHANGED <<full_response_text, pc>>
    /\ UNCHANGED <<request, epoch_time, response, caller, delivered, connected,
                   failure, writes, sink, now>>
    /\ PureUnchanged

\* generate(), lines 216-218: the next chunk arrives
StreamRead(f) ==
    /\ pc[f] = "s_read"
    /\ Len(received[f]) < MaxChunks
    /\ \E chunk \in StreamChunks :
         /\ received' = [received EXCEPT ![f] = Append(@, chunk)]
         /\ IF chunk # <<>>
            THEN /\ full_response_text' = [full_response_text EXCEPT ![f] =
                        @ \o DecodeUtf8(chunk, "ignore")]
                 /\ pc' = [pc EXCEPT ![f] = "s_yield"]
            ELSE UNCHANGED <<full_response_text, pc>>
    /\ UNCHANGED <<request, epoch_time, response, caller, delivered, connected,
                   failure, writes, sink, now>>
    /\ PureUnchanged

\* generate(), line 216: the upstream connection breaks in mid-stream
StreamBroken(f) ==
    /\ pc[f] = "s_read"
    /\ response' = [response EXCEPT ![f].state = "broken"]
    /\ RaiseInStream(f)
    /\ UNCHANGED <<request, epoch_time, received, full_response_text, delivered,
                   connected, failure, writes, sink, now>>
    /\ PureUnchanged

\* generate(), line 216, leaving the loop without yielding the last chunk
StreamEndMutBeforeYield(f) ==
    /\ pc[f] \in {"s_read", "s_yield"}
    /\ response' = [response EXCEPT ![f].state = "responded",
                                    ![f].content = Concat(received[f])]
    /\ pc' = [pc EXCEPT ![f] = "s_log_response"]
    /\ UNCHANGED <<request, epoch_time, received, full_response_text, caller,
                   delivered, connected, failure, writes, sink, now>>
    /\ PureUnchanged

\* generate(), line 216: the upstream stream is exhausted
StreamEnd(f) ==
    /\ pc[f] = "s_read"
    /\ response' = [response EXCEPT ![f].state = "responded",
                                    ![f].content = Concat(received[f])]
    /\ pc' = [pc EXCEPT ![f] = "s_log_response"]
    /\ UNCHANGED <<request, epoch_time, received, full_response_text, caller,
                   delivered, connected, failure, writes, sink, now>>
    /\ PureUnchanged

\* generate(), line 219, yielding what was accumulated so far instead of the chunk
StreamYieldMutCumulative(f) ==
    /\ pc[f] = "s_yield"
    /\ connected[f]
    /\ delivered' = [delivered EXCEPT ![f] = Append(@, Concat(received[f]))]
    /\ pc' = [pc EXCEPT ![f] = "s_read"]
    /\ UNCHANGED <<request, epoch_time, response, received, full_response_text,
                   caller, connected, failure, writes, sink, now>>
    /\ PureUnchanged

\* generate(), line 219: the chunk is handed to the caller
StreamYield(f) ==
    /\ pc[f] = "s_yield"
    /\ connected[f]
    /\ delivered' = [delivered EXCEPT ![f] = Append(@, received[f][Len(received[f])])]
    /\ pc' = [pc EXCEPT ![f] = "s_read"]
    /\ UNCHANGED <<request, epoch_time, response, received, full_response_text,
                   caller, connected, failure, writes, sink, now>>
    /\ PureUnchanged

\* generate(), line 219: the caller is gone but the serving layer's write is
\* still accepted by the socket; the chunk is lost and generate() goes on
StreamYieldLost(f) ==
    /\ pc[f] = "s_yield"
    /\ ~connected[f]
    /\ pc' = [pc EXCEPT ![f] = "s_read"]
    /\ UNCHANGED <<request, epoch_time, response, received, full_response_text,
                   caller, delivered, connected, failure, writes, sink, now>>
    /\ PureUnchanged

\* generate(), line 219: the caller is gone and the serving layer's write
\* fails; it closes the generator at the yield, and nothing after it runs
StreamClosed(f) ==
    /\ pc[f] = "s_yield"
    /\ ~connected[f]
    /\ RaiseInStream(f)
    /\ UNCHANGED <<request, epoch_time, response, received, full_response_text,
                   delivered, connected, failure, writes, sink, now>>
    /\ PureUnchanged

\* generate(), lines 222-259: the body is reconstructed, the snapshot written
StreamLogResponse(f) ==
    /\ pc[f] = "s_log_response"
    /\ \E outcome \in CaptureOutcomes \ {"mkdir_failed"} :
         IF outcome = "ok"
         THEN /\ WriteResponseSnapshot(f, Reconstruct(full_response_text[f]))
              /\ pc' = [pc EXCEPT ![f] = "done"]
              /\ UNCHANGED <<caller, failure>>
         ELSE /\ failure' = [failure EXCEPT ![f] = outcome]
              /\ RaiseInStream(f)
              /\ UNCHANGED <<sink, writes>>
    /\ UNCHANGED <<request, epoch_time, response, received, full_response_text,
                   delivered, connected, now>>
    /\ PureUnchanged

\* the caller closes its connection while its request is being handled
CallerDisconnect(f) ==
    /\ pc[f] \notin {"off", "idle", "done"}
    /\ connected[f]
    /\ connected' = [connected EXCEPT ![f] = FALSE]
    /\ UNCHANGED <<pc, request, epoch_time, response, received, full_response_text,
                   caller, delivered, failure, writes, sink, now>>
    /\ PureUnchanged

\* a second passes
Tick ==
    /\ now < MaxTime
    /\ now' = now + 1
    /\ UNCHANGED <<pc, request, epoch_time, response, received, full_response_text,
                   caller, delivered, connected, failure, writes, sink>>
    /\ PureUnchanged

FlowNext ==
    \/ \E f \in Flows :
          \/ NotRouted(f)
          \/ UnaryStart(f)
          \/ UnaryTransportFailure(f)
          \/ UnaryUpstream(f)
          \/ UnaryLogRequest(f)
          \/ UnaryLogResponse(f)
          \/ StreamStart(f)
          \/ StreamLogRequest(f)
          \/ StreamTransportFailure(f)
          \/ StreamUpstream(f)
          \/ StreamRead(f)
          \/ StreamBroken(f)
          \/ StreamEnd(f)
          \/ StreamYield(f)
          \/ StreamYieldLost(f)
          \/ StreamClosed(f)
          \/ StreamLogResponse(f)
          \/ CallerDisconnect(f)
    \/ Tick

PureInit == ReconInit /\ SelInit /\ FilInit /\ UrlInit

\* one request is handled
Init ==
    /\ FlowsInit({"f1"})
    /\ PureInit

\* no request is handled: a pure part is driven on its inputs
InitPure ==
    /\ FlowsOff
    /\ PureInit

Spec == Init /\ [][FlowNext]_vars

SpecSelect == InitPure /\ [][SelNext]_vars

SpecFilter == InitPure /\ [][FilNext]_vars

SpecRecon == InitPure /\ [][ReconNext]_vars

SpecUrl == InitPure /\ [][UrlNext]_vars

\* two requests are handled concurrently
InitConcurrent ==
    /\ FlowsInit(Flows)
    /\ PureInit

\* The second request is one that runs smoothly: its caller stays, its capture
\* steps succeed, and its stream carries complete event lines.
SecondFlowSmooth ==
    /\ connected["f2"]
    /\ failure["f2"] = "none"
    /\ request["f2"].body \in {"none", "json"}
    /\ \A i \in 1..Len(received["f2"]) : received["f2"][i] = Line(<<"1">>) \o <<"NL">>

ConcurrentNext ==
    \/ \E f \in Flows : NotRouted(f) /\ SecondFlowSmooth'
    \/ \E f \in Flows : UnaryStart(f) /\ SecondFlowSmooth'
    \/ \E f \in Flows : UnaryTransportFailure(f) /\ SecondFlowSmooth'
    \/ \E f \in Flows : UnaryUpstream(f) /\ SecondFlowSmooth'
    \/ \E f \in Flows : UnaryLogRequest(f) /\ SecondFlowSmooth'
    \/ \E f \in Flows : UnaryLogResponse(f) /\ SecondFlowSmooth'
    \/ \E f \in Flows : StreamStart(f) /\ SecondFlowSmooth'
    \/ \E f \in Flows : StreamLogRequest(f) /\ SecondFlowSmooth'
    \/ \E f \in Flows : StreamTransportFailure(f) /\ SecondFlowSmooth'
    \/ \E f \in Flows : StreamUpstream(f) /\ SecondFlowSmooth'
    \/ \E f \in Flows : StreamRead(f) /\ SecondFlowSmooth'
    \/ \E f \in Flows : StreamBroken(f) /\ SecondFlowSmooth'
    \/ \E f \in Flows : StreamEnd(f) /\ SecondFlowSmooth'
    \/ \E f \in Flows : StreamYield(f) /\ SecondFlowSmooth'
    \/ \E f \in Flows : StreamYieldLost(f) /\ SecondFlowSmooth'
    \/ \E f \in Flows : StreamClosed(f) /\ SecondFlowSmooth'
    \/ \E f \in Flows : StreamLogResponse(f) /\ SecondFlowSmooth'
    \/ \E f \in Flows : CallerDisconnect(f) /\ SecondFlowSmooth'
    \/ Tick

SpecConcurrent == InitConcurrent /\ [][ConcurrentNext]_vars

\* ------------------------------------------------------------------ claims

\* A POST request that reached a handler and whose body the handler parsed.
Accepted(f) == request[f].handler # "none" /\ GetJson(request[f].body).ok

Finished(f) == pc[f] = "done"

\* C1 (as stated): whatever the upstream call, the capture writes and the
\* caller's connection do, a finished accepted flow has written one request
\* snapshot and one response snapshot, both under the key read at its start.
C1_OneWriteOfEachUnderOneKey ==
    \A f \in Flows :
        (Finished(f) /\ Accepted(f)) =>
            /\ writes[f].request = <<epoch_time[f]>>
            /\ writes[f].response = <<epoch_time[f]>>

\* the text generate() accumulates from chunks taken in this order
RECURSIVE DecodedInOrder(_)
DecodedInOrder(chunks) ==
    IF chunks = <<>> THEN <<>>
    ELSE DecodeUtf8(Head(chunks), "ignore") \o DecodedInOrder(Tail(chunks))

\* The streaming flow read the upstream stream to its end.
ReadToEnd(f) ==
    /\ request[f].handler = "proxy_streaming_request"
    /\ pc[f] \in {"s_log_response", "done"}
    /\ response[f].state = "responded"

\* Every chunk the flow yielded was handed over while the caller was there.
AllYieldsTaken(f) ==
    Len(delivered[f]) = Len(SelectSeq(received[f], LAMBDA c : c # <<>>))

\* The streaming flow read the upstream stream to its end for a caller that
\* stayed until the last chunk.
RanToCompletion(f) == ReadToEnd(f) /\ (connected[f] \/ AllYieldsTaken(f))

\* C2: in a streaming flow that ran to completion the chunks relayed are the
\* chunks upstream produced, in arrival order, none dropped, repeated or
\* altered (a keep-alive chunk carries no byte), and the capture buffer is
\* built from the same chunks in the same order.
C2_RelayedChunksAreUpstreamChunks ==
    \A f \in Flows :
        RanToCompletion(f) =>
            /\ Concat(delivered[f]) = Concat(received[f])
            /\ delivered[f] = SelectSeq(received[f], LAMBDA c : c # <<>>)
            /\ full_response_text[f] = DecodedInOrder(delivered[f])

\* C2 (witness): two different chunks were relayed and the stream completed.
C2_Witness ==
    \E f \in Flows :
        /\ RanToCompletion(f)
        /\ Len(delivered[f]) = 2
        /\ delivered[f][1] # delivered[f][2]

\* C3 (as stated): an accepted flow in which a capture step failed still relays
\* the upstream response: status, filtered headers and complete body.
C3_CaptureFailureLeavesRelayIntact ==
    \A f \in Flows :
        (Finished(f) /\ Accepted(f) /\ failure[f] # "none") =>
            /\ caller[f].origin = "upstream"
            /\ caller[f].status = response[f].status
            /\ caller[f].headers = FilterHeaders(response[f].headers)
            /\ Concat(delivered[f]) = response[f].content

\* C4 (as stated, for the flows in which no capture step failed): once the
\* unary flow has an upstream response, the caller is sent its status and its
\* body bytes, and the response snapshot records that status, whatever the
\* status and whether or not the body decodes as JSON.
C4_StatusAndBodyPassThrough ==
    \A f \in Flows :
        (Finished(f) /\ request[f].handler = "proxy_request"
                     /\ response[f].state = "responded" /\ failure[f] = "none") =>
            /\ caller[f].status = response[f].status
            /\ Concat(delivered[f]) = response[f].content
            /\ sink[epoch_time[f]].response # NoSnapshot
            /\ sink[epoch_time[f]].response.statusCode = response[f].status

\* C5 (as stated): an accepted request whose upstream call failed at transport
\* level is answered with a 5xx response without a body of the proxy's; every
\* other accepted request is answered with the upstream's own response.
C5_SyntheticOnlyOnTransportFailure ==
    \A f \in Flows :
        (Finished(f) /\ Accepted(f)) =>
            IF response[f].state = "failed"
            THEN /\ caller[f].origin = "serving_layer"
                 /\ caller[f].status \in 500..599
                 /\ delivered[f] = <<>>
            ELSE caller[f].origin = "upstream"

PairsOf(d) == {<<k, d[k]>> : k \in DOMAIN d}

AllowList == {headers_to_forward[i] : i \in 1..Len(headers_to_forward)}

\* The inbound line the claim has forwarded for the name k: the one spelled
\* exactly as the allow-list entry if there is one, otherwise the first one.
ChosenLine(k) ==
    LET S == SameName(inbound, k)
        exact == {i \in S : inbound[i].name = Lower(k)}
    IN  IF exact # {} THEN Min(exact) ELSE Min(S)

\* C6 (as stated): the outbound mapping holds only allow-listed names, one entry
\* per name, each under the casing of the inbound line it was taken from and with
\* that line's value; allow-listed names that are absent are omitted and those
\* that are present are forwarded.
C6_ForwardedUnderInboundCasing ==
    forward_headers # NotComputed =>
        /\ \A k \in DOMAIN forward_headers : Lower(k) \in AllowList
        /\ \A k1, k2 \in DOMAIN forward_headers : Lower(k1) = Lower(k2) => k1 = k2
        /\ \A k \in DOMAIN forward_headers :
              /\ SameName(inbound, k) # {}
              /\ k = inbound[ChosenLine(k)].name
              /\ forward_headers[k] = <<inbound[ChosenLine(k)].value>>
        /\ \A h \in AllowList :
              SameName(inbound, h) # {} =>
                  \E k \in DOMAIN forward_headers : Lower(k) = h

\* The upstream lines the claim has relayed: not a framing header, and the first
\* of the lines whose names are equal ignoring case.
KeptLines ==
    {i \in 1..Len(upstream_headers) :
        /\ Lower(upstream_headers[i].name) \notin FramingHeaders
        /\ i = Min(SameName(upstream_headers, upstream_headers[i].name))}

\* C7 (as stated): the relayed header set is the upstream headers minus the six
\* framing headers, the first occurrence kept among names equal ignoring case,
\* each relayed under its original name with its original value.
C7_FirstOccurrenceRelayed ==
    filtered_headers # NotComputed =>
        PairsOf(filtered_headers) =
            {<<upstream_headers[i].name, <<upstream_headers[i].value>>>> : i \in KeptLines}

UnaryPlaces == {"u_post", "u_log_request", "u_log_response"}

StreamPlaces == {"s_log_request", "s_post", "s_read", "s_yield", "s_log_response"}

\* C8: a POST is handled by the streaming handler exactly when its action is
\* streamGenerateContent and by the unary handler for every other action; any
\* other method reaches no handler, calls upstream never and writes nothing.
C8_RoutedByMethodAndAction ==
    \A f \in Flows :
        pc[f] \notin {"off", "idle"} =>
            /\ request[f].handler = "proxy_streaming_request"
                  <=> (request[f].method = "POST"
                          /\ request[f].action = "streamGenerateContent")
            /\ request[f].handler = "proxy_request"
                  <=> (request[f].method = "POST"
                          /\ request[f].action # "streamGenerateContent")
            /\ pc[f] \in UnaryPlaces => request[f].handler = "proxy_request"
            /\ pc[f] \in StreamPlaces => request[f].handler = "proxy_streaming_request"
            /\ request[f].method # "POST" =>
                  /\ pc[f] = "done"
                  /\ response[f].state = "none"
                  /\ writes[f] = NoWrites
                  /\ caller[f].origin = "serving_layer"

\* C8 (witness): a POST to :streamGenerateContent is being streamed while a
\* snapshot of it is already in the sink.
C8_Witness ==
    \E f \in Flows :
        /\ pc[f] = "s_read"
        /\ request[f].action = "streamGenerateContent"
        /\ writes[f].request # <<>>

\* The 'data: ' lines of a text, trimmed, in line order.
DataLines(text) ==
    SelectSeq(TrimmedLines(text), LAMBDA l : StartsWith(l, DataPrefix))

FirstLineIsData(text) ==
    TrimmedLines(text) # <<>> /\ StartsWith(TrimmedLines(text)[1], DataPrefix)

\* The decoded payloads of the 'data: ' lines that decode, in line order.
DecodedPayloads(text) ==
    LET ok == SelectSeq(DataLines(text),
                        LAMBDA l : JsonLoads(DropPrefix(l)).tag = "ok")
    IN  [i \in 1..Len(ok) |-> JsonLoads(DropPrefix(ok[i])).val]

\* Some 'data: ' payload raises an error that is not a JSON decode error.
SomePayloadRaises(text) ==
    \E i \in 1..Len(DataLines(text)) :
        JsonLoads(DropPrefix(DataLines(text)[i])).tag = "ValueError"

C10_FallThroughOrder ==
    rphase = "done" =>
        /\ recon_body.kind \in {"text", "json", "list"}
        /\ Strip(recon_text) = <<>> => recon_body = RawBody(recon_text)
        /\ (~FirstLineIsData(recon_text)
              \/ DecodedPayloads(recon_text) = <<>>) =>
                 recon_body =
                    IF JsonLoads(recon_text).tag = "ok"
                    THEN [kind |-> "json", val |-> JsonLoads(recon_text).val]
                    ELSE RawBody(recon_text)

\* C10 (witness): an SSE stream none of whose payloads decodes was kept as raw text.
C10_Witness ==
    /\ rphase = "done"
    /\ FirstLineIsData(recon_text)
    /\ Len(DataLines(recon_text)) >= 2
    /\ DecodedPayloads(recon_text) = <<>>
    /\ recon_body = RawBody(recon_text)

\* C11: the upstream URL is the base URL and path followed, when a parameter
\* is present, by "?" and every inbound key=value pair joined by "&", in the
\* original order, every value of a repeated key included, nothing re-encoded.
RECURSIVE JoinRaw(_)
JoinRaw(raw) ==
    IF raw = <<>> THEN <<>>
    ELSE <<Head(raw).key, "=", Head(raw).value>>
         \o (IF Len(raw) > 1 THEN <<"&">> ELSE <<>>)
         \o JoinRaw(Tail(raw))

VerbatimUrl(action, raw) ==
    IF raw = <<>> THEN BaseUrl(action) ELSE BaseUrl(action) \o <<"?">> \o JoinRaw(raw)

C11_QueryForwardedVerbatim ==
    gemini_url # NoUrl =>
        \E a \in ActionLiterals : PreparedUrl(gemini_url) = VerbatimUrl(a, args)

\* The response snapshot that flow f wrote and that the sink still holds.
HoldsResponseOf(f) ==
    /\ writes[f].response # <<>>
    /\ sink[epoch_time[f]].response.of = f

C13_AbsentBodyAccepted ==
    \A f \in Flows :
        (Finished(f) /\ request[f].handler # "none" /\ request[f].body = "absent"
                     /\ failure[f] = "none") =>
            /\ response[f].state # "none"
            /\ ~(caller[f].origin = "serving_layer" /\ caller[f].status \in {400, 415})

\* C14 (as stated): in both flows each snapshot half is written once: the
\* request snapshot before the flow waits for the upstream response, the
\* response snapshot once the upstream response is complete; none is
\* written a second time.
C14_HalvesWrittenWhenAvailable ==
    \A f \in Flows :
        /\ (Accepted(f) /\ pc[f] \in {"u_post", "s_post"}) => Len(writes[f].request) = 1
        /\ writes[f].response # <<>> => response[f].state = "responded"
        /\ Len(writes[f].request) <= 1
        /\ Len(writes[f].response) <= 1

NonEmpty(chunks) == SelectSeq(chunks, LAMBDA c : c # <<>>)

\* C15: a streaming flow writes its response snapshot only when the upstream
\* stream is exhausted and every received chunk was handed to the caller (as
\* long as the caller is there), with the body reconstructed from the text of
\* all received chunks; while chunks are arriving no response snapshot exists.
C15_ResponseSnapshotAfterStream ==
    \A f \in Flows :
        request[f].handler = "proxy_streaming_request" =>
            /\ pc[f] \in {"s_log_request", "s_post", "s_read", "s_yield", "s_log_response"}
                  => writes[f].response = <<>>
            /\ HoldsResponseOf(f) =>
                  /\ response[f].state = "responded"
                  /\ response[f].content = Concat(received[f])
                  /\ connected[f] => delivered[f] = NonEmpty(received[f])
                  /\ full_response_text[f] = DecodedInOrder(received[f])
                  /\ sink[epoch_time[f]].response.body = Reconstruct(full_response_text[f])

\* C15 (witness): a streaming flow relayed two chunks to a caller that stayed
\* and then wrote its response snapshot.
C15_Witness ==
    \E f \in Flows :
        /\ request[f].handler = "proxy_streaming_request"
        /\ HoldsResponseOf(f)
        /\ connected[f]
        /\ Len(delivered[f]) = 2
        /\ full_response_text[f] # <<>>

\* The chunks of flow f are relayed one at a time: the chunk just read is the
\* only one the caller may not have yet, and it is handed over before the next
\* read.
OneChunkAtATime(f) ==
    /\ pc[f] = "s_yield" => /\ Len(NonEmpty(received[f])) = Len(delivered[f]) + 1
                            /\ delivered[f] = SubSeq(NonEmpty(received[f]), 1, Len(delivered[f]))
    /\ pc[f] # "s_yield" => delivered[f] = NonEmpty(received[f])

\* C16 (as stated): in a streaming flow whose caller is there, at most one
\* received chunk is not yet relayed, and the relaying of the chunks waits for
\* no capture write at all.
C16_RelayedAtOnceBeforeAnyWrite ==
    \A f \in Flows :
        (request[f].handler = "proxy_streaming_request" /\ connected[f]) =>
            /\ OneChunkAtATime(f)
            /\ pc[f] \in {"s_read", "s_yield"} => writes[f] = NoWrites

\* C16 (amended): in a streaming flow whose caller is there, at most one
\* received chunk is not yet relayed, and the relaying of the chunks does not
\* wait for the response snapshot; the request snapshot is written before the
\* upstream call.
C16_RelayedAtOnceBeforeResponseWrite ==
    \A f \in Flows :
        (request[f].handler = "proxy_streaming_request" /\ connected[f]) =>
            /\ OneChunkAtATime(f)
            /\ pc[f] \in {"s_read", "s_yield"} =>
                  /\ writes[f].response = <<>>
                  /\ Len(writes[f].request) = 1

\* C16 (witness): the first chunk has reached the caller while the upstream
\* stream is still open and no response snapshot is written.
C16_Witness ==
    \E f \in Flows :
        /\ request[f].handler = "proxy_streaming_request"
        /\ connected[f]
        /\ pc[f] = "s_read"
        /\ response[f].state = "streaming"
        /\ Len(delivered[f]) = 1
        /\ Len(received[f]) = 1
        /\ writes[f].response = <<>>

KeysWritten(f) ==
    {writes[f].request[i] : i \in 1..Len(writes[f].request)}
        \cup {writes[f].response[i] : i \in 1..Len(writes[f].response)}

\* C17 (as stated): whatever requests are handled concurrently, the writes to
\* the snapshots of one correlation key all come from one flow.
C17_OneFlowPerKey ==
    \A f, g \in Flows : f # g => KeysWritten(f) \cap KeysWritten(g) = {}

AllFinished == \A f \in Flows : pc[f] \in {"off", "done"}

\* C18 (as stated): when all flows have finished, the request snapshot and the
\* response snapshot the sink holds under one key are those of one request.
C18_PairDescribesOneRequest ==
    AllFinished =>
        \A k \in Keys :
            (sink[k].request.of # "none" /\ sink[k].response.of # "none") =>
                /\ sink[k].request.of = sink[k].response.of
                /\ sink[k].response.statusCode = response[sink[k].request.of].status

\* C19 (as stated): the text a streaming flow accumulates is the lenient
\* UTF-8 decoding of all bytes received so far, however upstream's bytes were
\* split into chunks.
C19_TextIndependentOfChunking ==
    \A f \in Flows :
        request[f].handler = "proxy_streaming_request" =>
            full_response_text[f] = DecodeUtf8(Concat(received[f]), "ignore")

====
